---- MODULE Spec2Model ----
(***************************************************************************)
(* Model of app/src/main/cpp/fft_processing.cpp: the JNI entry point       *)
(* Java_com_todoacorde_todoacorde_FFT_performFFT(signal, real, imag).      *)
(*                                                                         *)
(* Java arrays live in `heap`; a call holds three element pointers         *)
(* obtained by GetFloatArrayElements (a direct pointer into the array, a   *)
(* private copy that is copied back on release with mode 0, or NULL), a    *)
(* kiss_fft plan, and the two native vectors in and out.  Every statement  *)
(* of the function is one step of the thread that runs the call.           *)
(*                                                                         *)
(* Numbers are exact: a value <<a, b>> stands for a + b * sqrt(2)/2, which *)
(* holds every product of an integer sample with a twiddle factor of a     *)
(* transform whose length divides 8.  Float rounding is not modelled.      *)
(***************************************************************************)
EXTENDS Integers, Sequences, FiniteSets

\* Largest sample amplitude of the enumerated input signals.
MaxVal == 1

\* Array lengths the model enumerates: 0 and the divisors of 8.
Lens == {0, 1, 2, 4, 8}

\* Array lengths of the two-thread specification.
ConcLens == {0, 1}

VARIABLES
    T,          \* the threads running a call
    heap,       \* Java heap: array object -> its elements
    args,       \* per thread: the array objects passed as signal, real, imag
    pc,         \* per thread: the statement to execute next
    n,          \* per thread: int n
    ptr,        \* per thread: signalArray, realArray, imagArray
    cfg,        \* per thread: kiss_fft_cfg cfg
    in,         \* per thread: std::vector<kiss_fft_cpx> in
    out,        \* per thread: std::vector<kiss_fft_cpx> out
    i,          \* per thread: loop index
    crashed,    \* the process died (SIGSEGV / JNI abort)
    layout,     \* how the arrays lie in memory, decided by the first overrun
    heap0,      \* history: the heap when the calls started
    written,    \* history: the heap cells <<object, index>> stored to
    oob,        \* history: a store went outside the bounds of its buffer
    fftCalled,  \* history, per thread: kiss_fft was invoked
    relCount,   \* history, per thread: ReleaseFloatArrayElements calls per pointer
    freeCount,  \* history, per thread: kiss_fft_free calls
    lateUse     \* history: a pointer or plan was used after its release

vars == <<T, heap, args, pc, n, ptr, cfg, in, out, i, crashed, layout,
          heap0, written, oob, fftCalled, relCount, freeCount, lateUse>>

----------------------------------------------------------------------------
\* Numbers

Zero == <<0, 0>>
One == <<1, 0>>

\* What an output buffer held before the call: a value no transform produces.
Stale == <<0, 0, 1>>

Add(x, y) == <<x[1] + y[1], x[2] + y[2]>>
Neg(x) == <<0 - x[1], 0 - x[2]>>

\* An integer-valued sample times a table entry.
Scale(x, tw) == <<x[1] * tw[1], x[1] * tw[2]>>

\* cos(2 pi j / 8) and sin(2 pi j / 8) for j = 0..7, at index j + 1.
Cos8 == << <<1, 0>>, <<0, 1>>, <<0, 0>>, <<0, -1>>,
           <<-1, 0>>, <<0, -1>>, <<0, 0>>, <<0, 1>> >>
Sin8 == << <<0, 0>>, <<0, 1>>, <<1, 0>>, <<0, 1>>,
           <<0, 0>>, <<0, -1>>, <<-1, 0>>, <<0, -1>> >>

\* The angle index of exp(-2 pi i k m / N) in eighths of a turn.
Angle(k, m, N) == (k * m * (8 \div N)) % 8

\* Term m of bin k: in[m] * exp(-2 pi i k m / N), forward transform.
TermRe(x, k, m, N) ==
    Add(Scale(x.r, Cos8[Angle(k, m, N) + 1]), Scale(x.i, Sin8[Angle(k, m, N) + 1]))
TermIm(x, k, m, N) ==
    Add(Scale(x.i, Cos8[Angle(k, m, N) + 1]), Neg(Scale(x.r, Sin8[Angle(k, m, N) + 1])))

RECURSIVE SumRe(_, _, _), SumIm(_, _, _)
SumRe(fin, k, m) ==
    IF m = 0 THEN Zero
    ELSE Add(SumRe(fin, k, m - 1), TermRe(fin[m], k, m - 1, Len(fin)))
SumIm(fin, k, m) ==
    IF m = 0 THEN Zero
    ELSE Add(SumIm(fin, k, m - 1), TermIm(fin[m], k, m - 1, Len(fin)))

\* kiss_fft with a forward plan: X[k] = sum_m x[m] exp(-2 pi i k m / N).
Dft(fin) ==
    [k \in 1..Len(fin) |-> [r |-> SumRe(fin, k - 1, Len(fin)),
                            i |-> SumIm(fin, k - 1, Len(fin))]]

----------------------------------------------------------------------------
\* Inputs

Fill(len, v) == [k \in 1..len |-> v]

\* A signal of length len: silence, or one impulse of amplitude 1..MaxVal.
Signals(len) ==
    {Fill(len, Zero)} \cup
    {[k \in 1..len |-> IF k = p THEN <<a, 0>> ELSE Zero] : p \in 1..len, a \in 1..MaxVal}

PtrNames == {"signalArray", "realArray", "imagArray"}
Unset == [kind |-> "unset", buf |-> <<>>]

InitLocals(threads) ==
    /\ T = threads
    /\ pc = [t \in threads |-> "GetArrayLength"]
    /\ n = [t \in threads |-> 0]
    /\ ptr = [t \in threads |-> [p \in PtrNames |-> Unset]]
    /\ cfg = [t \in threads |-> [st |-> "unset", nfft |-> 0]]
    /\ in = [t \in threads |-> <<>>]
    /\ out = [t \in threads |-> <<>>]
    /\ i = [t \in threads |-> 0]
    /\ crashed = FALSE
    /\ layout = "unknown"
    /\ heap0 = heap
    /\ written = {}
    /\ oob = FALSE
    /\ fftCalled = [t \in threads |-> FALSE]
    /\ relCount = [t \in threads |-> [p \in PtrNames |-> 0]]
    /\ freeCount = [t \in threads |-> 0]
    /\ lateUse = FALSE

\* One call.  signal is object 1; real and imag are any of the array objects,
\* the same object as signal or as each other included.
Init ==
    /\ \E re \in {1, 2}, im \in {1, 2, 3}, ls \in Lens, lr \in Lens, li \in Lens :
         /\ im <= re + 1
         /\ \E s \in Signals(ls) :
              heap = [o \in 1..3 |->
                        IF o = 1 THEN s
                        ELSE IF o = 2 /\ (re = 2 \/ im = 2) THEN Fill(lr, Stale)
                        ELSE IF o = 3 /\ im = 3 THEN Fill(li, Stale)
                        ELSE <<>>]
         /\ (re = 2 \/ im = 2) \/ lr = 0
         /\ im = 3 \/ li = 0
         /\ args = [t \in {1} |-> [signal |-> 1, real |-> re, imag |-> im]]
    /\ InitLocals({1})

----------------------------------------------------------------------------
\* The steps of performFFT, in program order

Live(t) == ~crashed /\ t \in T

\* The process dies: no thread takes another step.
Crash ==
    /\ crashed' = TRUE
    /\ UNCHANGED <<T, heap, args, pc, n, ptr, cfg, in, out, i, layout,
                   heap0, written, fftCalled, relCount, freeCount, lateUse>>

\* line 9: int n = env->GetArrayLength(signal);
GetArrayLength(t) ==
    /\ Live(t) /\ pc[t] = "GetArrayLength"
    /\ n' = [n EXCEPT ![t] = Len(heap[args[t].signal])]
    /\ pc' = [pc EXCEPT ![t] = "GetSignal"]
    /\ UNCHANGED <<T, heap, args, ptr, cfg, in, out, i, crashed, layout,
                   heap0, written, oob, fftCalled, relCount, freeCount, lateUse>>

\* env->GetFloatArrayElements(array, nullptr): a pointer into the array, a
\* copy of its elements, or NULL when the copy cannot be allocated.
GetElements(t, name, o, next) ==
    /\ \E kind \in {"null", "direct", "copy"} :
         ptr' = [ptr EXCEPT ![t][name] =
                    [kind |-> kind, buf |-> IF kind = "copy" THEN heap[o] ELSE <<>>]]
    /\ pc' = [pc EXCEPT ![t] = next]
    /\ UNCHANGED <<T, heap, args, n, cfg, in, out, i, crashed, layout,
                   heap0, written, oob, fftCalled, relCount, freeCount, lateUse>>

\* line 10
GetSignal(t) ==
    /\ Live(t) /\ pc[t] = "GetSignal"
    /\ GetElements(t, "signalArray", args[t].signal, "GetReal")

\* line 11
GetReal(t) ==
    /\ Live(t) /\ pc[t] = "GetReal"
    /\ GetElements(t, "realArray", args[t].real, "GetImag")

\* line 12
GetImag(t) ==
    /\ Live(t) /\ pc[t] = "GetImag"
    /\ GetElements(t, "imagArray", args[t].imag, "Alloc")

\* line 14: kiss_fft_cfg cfg = kiss_fft_alloc(n, 0, nullptr, nullptr);
\* the plan, or NULL when its memory cannot be allocated.  n is not checked.
Alloc(t) ==
    /\ Live(t) /\ pc[t] = "Alloc"
    /\ \E c \in {"plan", "null"} : cfg' = [cfg EXCEPT ![t] = [st |-> c, nfft |-> n[t]]]
    /\ pc' = [pc EXCEPT ![t] = "Vectors"]
    /\ UNCHANGED <<T, heap, args, n, ptr, in, out, i, crashed, layout,
                   heap0, written, oob, fftCalled, relCount, freeCount, lateUse>>

\* lines 16-17: in(n), out(n), value-initialised.
Vectors(t) ==
    /\ Live(t) /\ pc[t] = "Vectors"
    /\ in' = [in EXCEPT ![t] = Fill(n[t], [r |-> Zero, i |-> Zero])]
    /\ out' = [out EXCEPT ![t] = Fill(n[t], [r |-> Zero, i |-> Zero])]
    /\ i' = [i EXCEPT ![t] = 0]
    /\ pc' = [pc EXCEPT ![t] = "FillIn"]
    /\ UNCHANGED <<T, heap, args, n, ptr, cfg, crashed, layout,
                   heap0, written, oob, fftCalled, relCount, freeCount, lateUse>>

\* signalArray[k - 1]: k <= n = the length of signal, so the read is in bounds.
LoadSignal(t, k) ==
    IF ptr[t]["signalArray"].kind = "direct"
    THEN heap[args[t].signal][k]
    ELSE ptr[t]["signalArray"].buf[k]

\* FillIn with in[i].i left equal to the sample instead of 0.0.
FillIn_ImagNotCleared(t) ==
    /\ Live(t) /\ pc[t] = "FillIn"
    /\ \/ /\ i[t] < n[t]
          /\ ptr[t]["signalArray"].kind = "null"
          /\ Crash
          /\ UNCHANGED oob
       \/ /\ i[t] < n[t]
          /\ ptr[t]["signalArray"].kind # "null"
          /\ in' = [in EXCEPT ![t][i[t] + 1] =
                       [r |-> LoadSignal(t, i[t] + 1), i |-> LoadSignal(t, i[t] + 1)]]
          /\ i' = [i EXCEPT ![t] = i[t] + 1]
          /\ UNCHANGED <<T, heap, args, pc, n, ptr, cfg, out, crashed, layout,
                         heap0, written, oob, fftCalled, relCount, freeCount, lateUse>>
       \/ /\ i[t] >= n[t]
          /\ pc' = [pc EXCEPT ![t] = "Fft"]
          /\ UNCHANGED <<T, heap, args, n, ptr, cfg, in, out, i, crashed, layout,
                         heap0, written, oob, fftCalled, relCount, freeCount, lateUse>>

\* lines 19-22: for (i < n) { in[i].r = signalArray[i]; in[i].i = 0.0; }
FillIn(t) ==
    /\ Live(t) /\ pc[t] = "FillIn"
    /\ \/ /\ i[t] < n[t]
          /\ ptr[t]["signalArray"].kind = "null"
          /\ Crash
          /\ UNCHANGED oob
       \/ /\ i[t] < n[t]
          /\ ptr[t]["signalArray"].kind # "null"
          /\ in' = [in EXCEPT ![t][i[t] + 1] = [r |-> LoadSignal(t, i[t] + 1), i |-> Zero]]
          /\ i' = [i EXCEPT ![t] = i[t] + 1]
          /\ lateUse' = (lateUse \/ relCount[t]["signalArray"] > 0)
          /\ UNCHANGED <<T, heap, args, pc, n, ptr, cfg, out, crashed, layout,
                         heap0, written, oob, fftCalled, relCount, freeCount>>
       \/ /\ i[t] >= n[t]
          /\ pc' = [pc EXCEPT ![t] = "Fft"]
          /\ UNCHANGED <<T, heap, args, n, ptr, cfg, in, out, i, crashed, layout,
                         heap0, written, oob, fftCalled, relCount, freeCount, lateUse>>

\* line 24: kiss_fft(cfg, in.data(), out.data());
\* a NULL plan is dereferenced; a plan of length 0 is outside kiss_fft's
\* contract, so the call may fault or return.
Fft(t) ==
    /\ Live(t) /\ pc[t] = "Fft"
    /\ fftCalled' = [fftCalled EXCEPT ![t] = TRUE]
    /\ \/ /\ cfg[t].st = "null" \/ (cfg[t].st = "plan" /\ cfg[t].nfft = 0)
          /\ crashed' = TRUE
          /\ UNCHANGED <<pc, out, i, lateUse>>
       \/ /\ cfg[t].st # "null"
          /\ out' = [out EXCEPT ![t] = Dft(in[t])]
          /\ i' = [i EXCEPT ![t] = 0]
          /\ pc' = [pc EXCEPT ![t] = "StoreLoop"]
          /\ lateUse' = (lateUse \/ freeCount[t] > 0)
          /\ UNCHANGED crashed
    /\ UNCHANGED <<T, heap, args, n, ptr, cfg, in, layout,
                   heap0, written, oob, relCount, freeCount>>

\* line 26: for (int i = 0; i < n; i++)
StoreLoop(t) ==
    /\ Live(t) /\ pc[t] = "StoreLoop"
    /\ pc' = [pc EXCEPT ![t] = IF i[t] < n[t] THEN "StoreReal" ELSE "Free"]
    /\ UNCHANGED <<T, heap, args, n, ptr, cfg, in, out, i, crashed, layout,
                   heap0, written, oob, fftCalled, relCount, freeCount, lateUse>>

\* The array an overrun of array o runs into, and the cell of it that index k
\* of o falls on (<<0, 0>>: memory that holds none of the arrays).
Victim(lay, o, k) ==
    LET v == IF lay = "ascending" THEN o + 1
             ELSE IF lay = "descending" THEN o - 1 ELSE 0
        j == k - Len(heap[o])
    IN IF v \in DOMAIN heap /\ j <= Len(heap[v]) THEN <<v, j>> ELSE <<0, 0>>

\* array[k - 1] = v through the element pointer `name` of array object o.
StoreThrough(t, name, o, k, v) ==
    LET p == ptr[t][name] IN
    \/ /\ p.kind = "null"
       /\ crashed' = TRUE
       /\ UNCHANGED <<heap, written, ptr, layout, oob>>
    \/ /\ p.kind = "direct" /\ k <= Len(heap[o])
       /\ heap' = [heap EXCEPT ![o][k] = v]
       /\ written' = written \cup {<<o, k>>}
       /\ UNCHANGED <<ptr, crashed, layout, oob>>
    \/ /\ p.kind = "copy" /\ k <= Len(p.buf)
       /\ ptr' = [ptr EXCEPT ![t][name].buf[k] = v]
       /\ UNCHANGED <<heap, written, crashed, layout, oob>>
    \/ \* past the end of the buffer: undefined behaviour.  The store faults,
       \* or lands in whatever lies behind the buffer.
       /\ p.kind = "direct" /\ k > Len(heap[o])
       /\ oob' = TRUE
       /\ \/ /\ crashed' = TRUE
             /\ UNCHANGED <<heap, written, ptr, layout>>
          \/ \E lay \in (IF layout = "unknown"
                         THEN {"scattered", "ascending", "descending"}
                         ELSE {layout}) :
               LET c == Victim(lay, o, k) IN
               /\ layout' = lay
               /\ heap' = IF c[1] = 0 THEN heap ELSE [heap EXCEPT ![c[1]][c[2]] = v]
               /\ written' = IF c[1] = 0 THEN written ELSE written \cup {c}
               /\ UNCHANGED <<ptr, crashed>>
    \/ /\ p.kind = "copy" /\ k > Len(p.buf)
       /\ oob' = TRUE
       /\ \/ crashed' = TRUE
          \/ UNCHANGED crashed
       /\ UNCHANGED <<heap, written, ptr, layout>>

\* StoreReal storing the imaginary part: realArray[i] = out[i].i;
StoreReal_FromImag(t) ==
    /\ Live(t) /\ pc[t] = "StoreReal"
    /\ StoreThrough(t, "realArray", args[t].real, i[t] + 1, out[t][i[t] + 1].i)
    /\ pc' = IF crashed' THEN pc ELSE [pc EXCEPT ![t] = "StoreImag"]
    /\ lateUse' = (lateUse \/ relCount[t]["realArray"] > 0)
    /\ UNCHANGED <<T, args, n, cfg, in, out, i, heap0, fftCalled, relCount, freeCount>>

\* line 27: realArray[i] = out[i].r;
StoreReal(t) ==
    /\ Live(t) /\ pc[t] = "StoreReal"
    /\ StoreThrough(t, "realArray", args[t].real, i[t] + 1, out[t][i[t] + 1].r)
    /\ pc' = IF crashed' THEN pc ELSE [pc EXCEPT ![t] = "StoreImag"]
    /\ lateUse' = (lateUse \/ relCount[t]["realArray"] > 0)
    /\ UNCHANGED <<T, args, n, cfg, in, out, i, heap0, fftCalled, relCount, freeCount>>

\* line 28: imagArray[i] = out[i].i;  then i++
StoreImag(t) ==
    /\ Live(t) /\ pc[t] = "StoreImag"
    /\ StoreThrough(t, "imagArray", args[t].imag, i[t] + 1, out[t][i[t] + 1].i)
    /\ pc' = IF crashed' THEN pc ELSE [pc EXCEPT ![t] = "StoreLoop"]
    /\ i' = IF crashed' THEN i ELSE [i EXCEPT ![t] = i[t] + 1]
    /\ lateUse' = (lateUse \/ relCount[t]["imagArray"] > 0)
    /\ UNCHANGED <<T, args, n, cfg, in, out, heap0, fftCalled, relCount, freeCount>>

\* line 31: kiss_fft_free(cfg);
Free(t) ==
    /\ Live(t) /\ pc[t] = "Free"
    /\ cfg' = [cfg EXCEPT ![t].st = "freed"]
    /\ freeCount' = [freeCount EXCEPT ![t] = freeCount[t] + 1]
    /\ pc' = [pc EXCEPT ![t] = "RelSignal"]
    /\ UNCHANGED <<T, heap, args, n, ptr, in, out, i, crashed, layout,
                   heap0, written, oob, fftCalled, relCount, lateUse>>

\* env->ReleaseFloatArrayElements(array, elems, 0): mode 0 copies a copy back
\* into the array and frees it; a direct pointer is only unpinned.  Passing
\* the NULL of a failed acquisition is outside the JNI contract: the runtime
\* may abort or do nothing.
ReleaseElements(t, name, o, next) ==
    LET p == ptr[t][name] IN
    /\ relCount' = [relCount EXCEPT ![t][name] = relCount[t][name] + 1]
    /\ \/ /\ p.kind = "null"
          /\ \/ crashed' = TRUE /\ UNCHANGED pc
             \/ UNCHANGED crashed /\ pc' = [pc EXCEPT ![t] = next]
          /\ UNCHANGED <<heap, written>>
       \/ /\ p.kind = "direct"
          /\ pc' = [pc EXCEPT ![t] = next]
          /\ UNCHANGED <<heap, written, crashed>>
       \/ /\ p.kind = "copy"
          /\ heap' = [heap EXCEPT ![o] = p.buf]
          /\ written' = written \cup {<<o, k>> : k \in 1..Len(p.buf)}
          /\ pc' = [pc EXCEPT ![t] = next]
          /\ UNCHANGED crashed
    /\ UNCHANGED <<T, args, n, ptr, cfg, in, out, i, layout,
                   heap0, oob, fftCalled, freeCount, lateUse>>

\* line 32
RelSignal(t) ==
    /\ Live(t) /\ pc[t] = "RelSignal"
    /\ ReleaseElements(t, "signalArray", args[t].signal, "RelReal")

\* line 33
RelReal(t) ==
    /\ Live(t) /\ pc[t] = "RelReal"
    /\ ReleaseElements(t, "realArray", args[t].real, "RelImag")

\* RelImag with the release of imagArray forgotten.
RelImag_Missing(t) ==
    /\ Live(t) /\ pc[t] = "RelImag"
    /\ pc' = [pc EXCEPT ![t] = "done"]
    /\ UNCHANGED <<T, heap, args, n, ptr, cfg, in, out, i, crashed, layout, heap0,
                   written, oob, fftCalled, relCount, freeCount, lateUse>>

\* line 34
RelImag(t) ==
    /\ Live(t) /\ pc[t] = "RelImag"
    /\ ReleaseElements(t, "imagArray", args[t].imag, "done")

Next ==
    \/ \E t \in T : GetArrayLength(t)
    \/ \E t \in T : GetSignal(t)
    \/ \E t \in T : GetReal(t)
    \/ \E t \in T : GetImag(t)
    \/ \E t \in T : Alloc(t)
    \/ \E t \in T : Vectors(t)
    \/ \E t \in T : FillIn(t)
    \/ \E t \in T : Fft(t)
    \/ \E t \in T : StoreLoop(t)
    \/ \E t \in T : StoreReal(t)
    \/ \E t \in T : StoreImag(t)
    \/ \E t \in T : Free(t)
    \/ \E t \in T : RelSignal(t)
    \/ \E t \in T : RelReal(t)
    \/ \E t \in T : RelImag(t)

Spec == Init /\ [][Next]_vars

\* Two calls on two threads, each with three array objects of its own.
InitConc ==
    /\ \E s1 \in UNION {Signals(l) : l \in ConcLens}, lr \in ConcLens, li \in ConcLens :
         heap = [o \in 1..6 |->
                   IF o = 1 THEN s1
                   ELSE IF o = 2 THEN Fill(lr, Stale)
                   ELSE IF o = 3 THEN Fill(li, Stale)
                   ELSE IF o = 4 THEN <<One>>
                   ELSE Fill(1, Stale)]
    /\ args = [t \in {1, 2} |-> [signal |-> 3 * t - 2, real |-> 3 * t - 1, imag |-> 3 * t]]
    /\ InitLocals({1, 2})

SpecConc == InitConc /\ [][Next]_vars

----------------------------------------------------------------------------
\* Properties

SignalOf(t) == args[t].signal
RealOf(t) == args[t].real
ImagOf(t) == args[t].imag

Done(t) == pc[t] = "done"

\* The lengths of the three arrays of call t agree.
LengthsAgree(t) ==
    /\ Len(heap0[RealOf(t)]) = Len(heap0[SignalOf(t)])
    /\ Len(heap0[ImagOf(t)]) = Len(heap0[SignalOf(t)])

\* signal, real and imag of call t are three different array objects.
Distinct(t) ==
    /\ SignalOf(t) # RealOf(t)
    /\ SignalOf(t) # ImagOf(t)
    /\ RealOf(t) # ImagOf(t)

\* Every acquisition of call t so far succeeded: no element pointer and no
\* plan is NULL.
Acquired(t) ==
    /\ cfg[t].st # "null"
    /\ \A p \in PtrNames : ptr[t][p].kind # "null"

\* The signal of call t has at least one sample.
NonEmpty(t) == Len(heap0[SignalOf(t)]) >= 1

\* A cell of real or imag of call t was stored to.
OutputWritten(t) == \E c \in written : c[1] \in {RealOf(t), ImagOf(t)}

\* The forward transform of the real sequence s, by the definition of the DFT.
Spectrum(s) == Dft([k \in 1..Len(s) |-> [r |-> s[k], i |-> Zero]])
SpectrumRe(s) == [k \in 1..Len(s) |-> Spectrum(s)[k].r]
SpectrumIm(s) == [k \in 1..Len(s) |-> Spectrum(s)[k].i]

Impulse8 == [k \in 1..8 |-> IF k = 1 THEN One ELSE Zero]

\* C1: a call in which real or imag differs in length from signal fails
\* without storing to any element of real or imag and without any access
\* outside a buffer's bounds.  Stated for the calls that are otherwise in
\* order: a signal of at least one sample, every acquisition successful.
C1_LengthMismatchWritesNothing ==
    \A t \in T :
        ~LengthsAgree(t) /\ NonEmpty(t) /\ Acquired(t) =>
            ~OutputWritten(t) /\ ~oob /\ ~Done(t)

\* C2: a call with an empty signal (n = 0) is rejected: no plan is built for
\* length 0, kiss_fft is never invoked and no element of real or imag is
\* stored to.  Stated for the calls whose element pointers were all acquired.
C2_EmptySignalRejected ==
    \A t \in T :
        ~NonEmpty(t) /\ (\A p \in PtrNames : ptr[t][p].kind # "null") =>
            cfg[t].st # "plan" /\ ~fftCalled[t] /\ ~OutputWritten(t)

\* C3: the contents of signal are never changed by the call, whatever arrays
\* are passed as real and imag.  Stated for the calls in which every
\* acquisition succeeded.
C3_SignalUnchanged ==
    \A t \in T : Acquired(t) => heap[SignalOf(t)] = heap0[SignalOf(t)]

\* C4 (as claimed): after a call with three arrays of equal length, real[k]
\* and imag[k] hold the real and imaginary part of bin k of the forward
\* transform of signal.
C4_BinsAligned ==
    \A t \in T :
        Done(t) /\ LengthsAgree(t) =>
            /\ heap[RealOf(t)] = SpectrumRe(heap0[SignalOf(t)])
            /\ heap[ImagOf(t)] = SpectrumIm(heap0[SignalOf(t)])

\* C4 (amended): after a call with three different array objects of equal
\* length, real[k] and imag[k] hold the real and imaginary part of bin k of
\* the forward transform of signal.
C4_BinsAlignedDistinct ==
    \A t \in T :
        Done(t) /\ LengthsAgree(t) /\ Distinct(t) =>
            /\ heap[RealOf(t)] = SpectrumRe(heap0[SignalOf(t)])
            /\ heap[ImagOf(t)] = SpectrumIm(heap0[SignalOf(t)])

\* A completed call on three different arrays of length 8 whose signal is an
\* impulse at index 1, so that all eight bins differ.
C4_Witness ==
    \E t \in T :
        /\ Done(t) /\ LengthsAgree(t) /\ Distinct(t)
        /\ heap0[SignalOf(t)] = [k \in 1..8 |-> IF k = 2 THEN One ELSE Zero]
        /\ heap[RealOf(t)][2] = <<0, 1>>
        /\ heap[ImagOf(t)][2] = <<0, -1>>

\* C5: calls running on different threads with pairwise disjoint arrays each
\* end with the real and imag contents the call produces when run alone (for
\* a call with matching lengths: the spectrum of its signal).
C5_ConcurrentCallsIndependent ==
    \A t \in T :
        Done(t) /\ LengthsAgree(t) =>
            /\ heap[RealOf(t)] = SpectrumRe(heap0[SignalOf(t)])
            /\ heap[ImagOf(t)] = SpectrumIm(heap0[SignalOf(t)])

\* C6: once a step of the call has failed (an element pointer or the plan is
\* NULL), no element of real or imag is ever stored to.  Stated for signals
\* of at least one sample.
C6_FailureWritesNothing ==
    \A t \in T :
        NonEmpty(t) /\ ~Acquired(t) => ~OutputWritten(t)

\* C7: the final contents of real and imag depend only on signal: no element
\* of them still holds what the buffer held before the call.  Stated for
\* signals of at least one sample.
C7_OutputDependsOnlyOnSignal ==
    \A t \in T :
        Done(t) /\ NonEmpty(t) =>
            /\ \A k \in DOMAIN heap[RealOf(t)] : heap[RealOf(t)][k] # Stale
            /\ \A k \in DOMAIN heap[ImagOf(t)] : heap[ImagOf(t)][k] # Stale

\* C8: whenever kiss_fft has run, the plan was built for n, in and out have
\* length n, and real and imag have length n = len(signal).  Stated for
\* signals of at least one sample and calls whose acquisitions all succeeded.
C8_LengthsAgreeWhenExecuted ==
    \A t \in T :
        fftCalled[t] /\ ~crashed /\ NonEmpty(t) /\ Acquired(t) =>
            /\ cfg[t].st \in {"plan", "freed"}
            /\ cfg[t].nfft = Len(heap0[SignalOf(t)])
            /\ Len(in[t]) = cfg[t].nfft
            /\ Len(out[t]) = cfg[t].nfft
            /\ Len(heap[RealOf(t)]) = cfg[t].nfft
            /\ Len(heap[ImagOf(t)]) = cfg[t].nfft

C10_ReleasedOnceAfterLastUse ==
    \A t \in T :
        /\ ~lateUse
        /\ freeCount[t] <= 1
        /\ freeCount[t] = 1 => fftCalled[t] /\ pc[t] \notin {"Fft", "StoreLoop", "StoreReal", "StoreImag"}
        /\ \A p \in PtrNames :
             /\ relCount[t][p] <= 1
             /\ relCount[t][p] = 1 => freeCount[t] = 1 /\ i[t] = n[t]
        /\ Done(t) => /\ freeCount[t] = 1 /\ cfg[t].st = "freed"
                      /\ \A p \in PtrNames : relCount[t][p] = 1

\* A call that returned after reading and storing through copies.
C10_Witness ==
    \E t \in T :
        /\ Done(t) /\ n[t] = 8
        /\ \A p \in PtrNames : ptr[t][p].kind = "copy" /\ relCount[t][p] = 1
====
